---- MODULE Spec2Model ----
(***************************************************************************)
(* A model of the persistent, resumable MCP server: the SQL-backed event   *)
(* log (persistentEventStore.ts: PersistentEventStore, getDbPool,          *)
(* closeDbPool) and the in-memory session registry of index.ts.            *)
(*                                                                         *)
(* Strings are sequences of one-character strings, so that building an     *)
(* event id and splitting it again are real string operations.  A          *)
(* JavaScript value is a flat sequence whose head is its type tag.         *)
(***************************************************************************)
EXTENDS Integers, Sequences, FiniteSets

\* ------------------------------------------------------------------ bounds
MaxClock == 2       \* Date.now() ranges over 0..MaxClock milliseconds
MaxLog == 3         \* storeEvent calls (durable rows plus calls in flight)
MaxPayloadLog == 2  \* storeEvent calls in the payload specification
MaxReplayLog == 3   \* storeEvent calls in the replay specification
MaxReplayClock == 5 \* Date.now() ranges over 0..MaxReplayClock there
MaxCorrupt == 1     \* rows of McpEvents whose text is not JSON
MaxWrites == 3      \* storeEvent calls in the specification of overlapping writes
MaxSessions == 2    \* session ids randomUUID() can return
MaxRequests == 3    \* HTTP requests received
MaxCloses == 2      \* close notifications of one transport
MaxPools == 3       \* ConnectionPool objects constructed

\* ------------------------------------------------------------------ strings
Digit == <<"0", "1", "2", "3", "4", "5", "6", "7", "8", "9">>

\* `${n}` for a non-negative integer: its decimal digits.
RECURSIVE NumberToString(_)
NumberToString(n) ==
    IF n < 10 THEN <<Digit[n + 1]>>
    ELSE NumberToString(n \div 10) \o <<Digit[(n % 10) + 1]>>

\* Index of the first "_" of str, or Len(str) + 1 when it has none.
RECURSIVE FirstDelimiter(_, _)
FirstDelimiter(str, i) ==
    IF i > Len(str) THEN i
    ELSE IF str[i] = "_" THEN i
    ELSE FirstDelimiter(str, i + 1)

\* A plausible slip: cut at the last "_"-free suffix instead of the first
\* component (split('_').pop()).
RECURSIVE LastDelimiter(_, _)
LastDelimiter(str, i) ==
    IF i < 1 THEN 0
    ELSE IF str[i] = "_" THEN i
    ELSE LastDelimiter(str, i - 1)

SplitLast(str) == SubSeq(str, LastDelimiter(str, Len(str)) + 1, Len(str))

\* lastEventId.split('_')[0]
SplitFirst(str) == SubSeq(str, 1, FirstDelimiter(str, 1) - 1)

\* ------------------------------------------------------------------ inputs
\* Stream ids handed to storeEvent; one of them contains the delimiter.
StreamIds == { <<"a">>, <<"b">>, <<"a", "_", "b">> }

\* randomUUID().substring(0, 8): the random suffix of an event id.
RandomSuffixes == { <<"x">>, <<"y">> }

\* JavaScript values: <<"str", c>>, <<"num", d>>, <<"nan">>, <<"null">>,
\* <<"undef">>, and an object with no member <<"obj">> or with one member
\* k whose value is a primitive p: <<"obj", k>> \o p.
JsStr(c) == <<"str", c>>
JsNum(d) == <<"num", d>>
JsNaN == <<"nan">>
JsNull == <<"null">>
JsUndefined == <<"undef">>
JsObj(k, p) == <<"obj", k>> \o p
JsEmptyObj == <<"obj">>

JsonPrimitives == { JsStr("A"), JsNum("1"), JsNull }

\* Messages every JSON text denotes: what a JSON-RPC peer can receive.
JsonMessages == { JsObj("r", p) : p \in JsonPrimitives } \cup { JsEmptyObj }

\* Values of type JSONRPCMessage that no JSON text denotes: a member that
\* is NaN, a member that is present with the value undefined.
NonJsonMessages == { JsObj("r", JsNaN), JsObj("r", JsUndefined) }

AllMessages == JsonMessages \cup NonJsonMessages

\* The messages of the replay specification.
LogMessages == { JsObj("r", JsStr("A")) }

\* ------------------------------------------------------------------ JSON
\* JSON.stringify of a primitive member value (never undefined here).
StringifyPrimitive(p) ==
    CASE p[1] = "str" -> <<"\"", p[2], "\"">>
      [] p[1] = "num" -> <<p[2]>>
      [] p[1] = "nan" -> <<"n", "u", "l", "l">>
      [] OTHER        -> <<"n", "u", "l", "l">>

\* A plausible slip: the text is built without the member's value.
StringifyDropMember(v) == <<"{", "}">>

\* JSON.stringify(message): a member whose value is undefined is left out,
\* NaN is written as null.
Stringify(v) ==
    IF v[1] # "obj" THEN StringifyPrimitive(v)
    ELSE IF Len(v) = 1 THEN <<"{", "}">>
    ELSE LET p == SubSeq(v, 3, Len(v))
         IN  IF p = JsUndefined THEN <<"{", "}">>
             ELSE <<"{", "\"", v[2], "\"", ":">> \o StringifyPrimitive(p) \o <<"}">>

\* Texts JSON.parse accepts as a primitive: null, a one-character string, a digit.
IsJsonPrimitiveText(t) ==
    \/ t = <<"n", "u", "l", "l">>
    \/ Len(t) = 3 /\ t[1] = "\"" /\ t[3] = "\""
    \/ Len(t) = 1 /\ \E d \in 1..Len(Digit) : t[1] = Digit[d]

\* Texts JSON.parse accepts; on any other text it throws a SyntaxError.
IsJsonText(t) ==
    \/ IsJsonPrimitiveText(t)
    \/ t = <<"{", "}">>
    \/ /\ Len(t) >= 7
       /\ t[1] = "{" /\ t[2] = "\"" /\ t[4] = "\"" /\ t[5] = ":" /\ t[Len(t)] = "}"
       /\ IsJsonPrimitiveText(SubSeq(t, 6, Len(t) - 1))

ParsePrimitive(t) ==
    IF t = <<"n", "u", "l", "l">> THEN JsNull
    ELSE IF t[1] = "\"" THEN JsStr(t[2])
    ELSE JsNum(t[1])

\* JSON.parse(row.MessageJson) of a text it accepts.
Parse(t) ==
    IF t[1] # "{" THEN ParsePrimitive(t)
    ELSE IF Len(t) = 2 THEN JsEmptyObj
    ELSE JsObj(t[3], ParsePrimitive(SubSeq(t, 6, Len(t) - 1)))

\* ------------------------------------------------------------------ event log
\* private generateEventId: `${streamId}_${Date.now()}_${random}`
generateEventId(streamId, now, random) ==
    streamId \o <<"_">> \o NumberToString(now) \o <<"_">> \o random

\* request.input('StoredAt', DateTime, storedAt): the driver sends a
\* DATETIME, whose time of day is a count of 1/300 s, Math.round(ms / 3.33..).
ToDateTime(ms) == (3 * ms + 5) \div 10

VARIABLES
    clock,       \* the wall clock, in milliseconds
    log,         \* the rows of McpEvents, in the order they became durable
    inserts,     \* storeEvent calls awaiting getDbPool() / the INSERT
    returned,    \* history: <<event id, message>> of every fulfilled storeEvent
    raised,      \* history: the number of storeEvent calls that raised
    replay,      \* the replayEventsAfter call, if one is running; queried,
                 \* qlen, rs and rejected are history: the query ran, on so
                 \* many durable rows, with this recordset; a send rejected
    transports,  \* the registry: own properties of the transports object,
                 \* session id -> transport
    tr,          \* the StreamableHTTPServerTransport objects ever constructed
    reqs,        \* the HTTP requests received, each with its handler's position
    pool,        \* let pool: the cached ConnectionPool (an index of pools) or null
    pools,       \* the ConnectionPool objects ever constructed
    closing,     \* pools whose close() a closeDbPool call is awaiting
    handed,      \* history: what getDbPool has returned to its callers
    exited       \* process.exit(0) has run

storeVars == <<clock, log, inserts, returned, raised, replay>>
sessionVars == <<transports, tr, reqs>>
poolVars == <<pool, pools, closing, handed, exited>>
vars == <<storeVars, sessionVars, poolVars>>

Row == [EventId : Seq(STRING), StreamId : Seq(STRING), MessageJson : Seq(STRING),
        StoredAt : Nat]

IdleReplay ==
    [pc |-> "idle", lastEventId |-> <<>>, streamId |-> <<>>, recordset |-> <<>>,
     sent |-> <<>>, queried |-> FALSE, qlen |-> 0, rs |-> <<>>,
     rejected |-> FALSE, result |-> <<>>, threw |-> FALSE]

InitStore ==
    /\ clock = 0
    /\ log = <<>>
    /\ inserts = <<>>
    /\ returned = {}
    /\ raised = 0
    /\ replay = IdleReplay

\* The clock advances between any two steps of the program.
Tick(maxClock) ==
    /\ clock < maxClock
    /\ clock' = clock + 1
    /\ UNCHANGED <<log, inserts, returned, raised, replay, sessionVars, poolVars>>

RemoveAt(seq, i) == SubSeq(seq, 1, i - 1) \o SubSeq(seq, i + 1, Len(seq))

EventIds(rows) == { rows[i].EventId : i \in 1..Len(rows) }

\* storeEvent up to its first await: the id, the JSON text and the
\* timestamp are taken before the pool is awaited.  The clock is read twice
\* (Date.now(), then new Date()) and may advance in between.
StoreEventBegin(streamId, message, random, maxClock) ==
    /\ \E d \in {0, 1} :
        /\ clock + d <= maxClock
        /\ clock' = clock + d
        /\ inserts' = Append(inserts,
               [row |-> [EventId |-> generateEventId(streamId, clock, random),
                         StreamId |-> streamId,
                         MessageJson |-> Stringify(message),
                         StoredAt |-> ToDateTime(clock + d)],
                message |-> message])
    /\ UNCHANGED <<log, returned, raised, replay, sessionVars, poolVars>>

\* The INSERT of a call in flight succeeds: one row becomes durable and the
\* call returns its event id.  EventId is the PRIMARY KEY.
StoreEventInsert(i) ==
    /\ i \in 1..Len(inserts)
    /\ inserts[i].row.EventId \notin EventIds(log)
    /\ log' = Append(log, inserts[i].row)
    /\ returned' = returned \cup { <<inserts[i].row.EventId, inserts[i].message>> }
    /\ inserts' = RemoveAt(inserts, i)
    /\ UNCHANGED <<clock, raised, replay, sessionVars, poolVars>>

\* A plausible slip: the error is raised after the row was written.
StoreEventThrowAfterWrite(i) ==
    /\ i \in 1..Len(inserts)
    /\ inserts[i].row.EventId \notin EventIds(log)
    /\ log' = Append(log, inserts[i].row)
    /\ inserts' = RemoveAt(inserts, i)
    /\ raised' = raised + 1
    /\ UNCHANGED <<clock, returned, replay, sessionVars, poolVars>>

\* getDbPool() or the INSERT rejects (no connection, a duplicate key):
\* storeEvent logs and rethrows, no row is written.
StoreEventThrow(i) ==
    /\ i \in 1..Len(inserts)
    /\ inserts' = RemoveAt(inserts, i)
    /\ raised' = raised + 1
    /\ UNCHANGED <<clock, log, returned, replay, sessionVars, poolVars>>

\* A text JSON.parse does not accept.
CorruptTexts == { <<"{">> }

\* MessageJson is NVARCHAR(MAX): the table takes any text.  Another client of
\* the database leaves a text that is not JSON in a row.
CorruptRow(k) ==
    /\ k \in 1..Len(log)
    /\ IsJsonText(log[k].MessageJson)
    /\ Cardinality({ i \in 1..Len(log) : ~IsJsonText(log[i].MessageJson) }) < MaxCorrupt
    /\ \E t \in CorruptTexts : log' = [log EXCEPT ![k].MessageJson = t]
    /\ UNCHANGED <<clock, inserts, returned, raised, replay, sessionVars, poolVars>>

\* ------------------------------------------------------------------ replay
\* SELECT le.StoredAt FROM McpEvents le WHERE le.EventId = @LastEventId AND
\* le.StreamId = @TargetStreamId: the indices of the matching rows (at most
\* one, EventId being the primary key); none makes the subquery NULL.
ReferenceRows(rows, streamId, lastEventId) ==
    { i \in 1..Len(rows) :
        rows[i].EventId = lastEventId /\ rows[i].StreamId = streamId }

\* A plausible slip: the WHERE clause without e.StreamId = @TargetStreamId.
SelectedAnyStream(rows, streamId, lastEventId) ==
    { i \in 1..Len(rows) :
        \E r \in ReferenceRows(rows, streamId, lastEventId) :
            rows[i].StoredAt > rows[r].StoredAt }

\* A plausible slip: a cursor that is not found replays the stream from its
\* start (COALESCE of the subquery to the earliest time).
SelectedFromStart(rows, streamId, lastEventId) ==
    { i \in 1..Len(rows) :
        /\ rows[i].StreamId = streamId
        /\ \A r \in ReferenceRows(rows, streamId, lastEventId) :
              rows[i].StoredAt > rows[r].StoredAt }

\* WHERE e.StreamId = @TargetStreamId AND e.StoredAt > (subquery): a
\* comparison with NULL selects nothing.
Selected(rows, streamId, lastEventId) ==
    { i \in 1..Len(rows) :
        /\ rows[i].StreamId = streamId
        /\ \E r \in ReferenceRows(rows, streamId, lastEventId) :
              rows[i].StoredAt > rows[r].StoredAt }

\* A plausible slip: the query without its ORDER BY clause.
RecordsetsUnordered(rows, streamId, lastEventId) ==
    LET sel == Selected(rows, streamId, lastEventId)
        n   == Cardinality(sel)
    IN  { [k \in 1..n |-> rows[f[k]]] :
            f \in { g \in [1..n -> sel] : \A x, y \in 1..n : x # y => g[x] # g[y] } }

\* ORDER BY e.StoredAt ASC: every arrangement of the selected rows with
\* non-decreasing StoredAt; rows of equal StoredAt come in any order.
Recordsets(rows, streamId, lastEventId) ==
    LET sel == Selected(rows, streamId, lastEventId)
        n   == Cardinality(sel)
    IN  { [k \in 1..n |-> rows[f[k]]] :
            f \in { g \in [1..n -> sel] :
                      /\ \A x, y \in 1..n : x # y => g[x] # g[y]
                      /\ \A x, y \in 1..n :
                            x < y => rows[g[x]].StoredAt <= rows[g[y]].StoredAt } }

\* replayEventsAfter up to its first await: the two early returns of '',
\* else the stream id is text before the first '_'.
ReplayBegin(lastEventId) ==
    /\ replay.pc = "idle"
    /\ LET streamId == SplitFirst(lastEventId)
       IN  replay' =
             IF lastEventId = <<>> \/ streamId = <<>>
             THEN [IdleReplay EXCEPT !.pc = "done", !.lastEventId = lastEventId]
             ELSE [IdleReplay EXCEPT !.pc = "query", !.lastEventId = lastEventId,
                                     !.streamId = streamId]
    /\ UNCHANGED <<clock, log, inserts, returned, raised, sessionVars, poolVars>>

\* await getDbPool(); await request.query(query)
ReplayQuery ==
    /\ replay.pc = "query"
    /\ \E rs \in Recordsets(log, replay.streamId, replay.lastEventId) :
          replay' = [replay EXCEPT !.pc = "loop", !.recordset = rs, !.rs = rs,
                                   !.queried = TRUE, !.qlen = Len(log)]
    /\ UNCHANGED <<clock, log, inserts, returned, raised, sessionVars, poolVars>>

\* getDbPool() or the query rejects: logged and rethrown.
ReplayQueryThrow ==
    /\ replay.pc = "query"
    /\ replay' = [replay EXCEPT !.pc = "done", !.threw = TRUE]
    /\ UNCHANGED <<clock, log, inserts, returned, raised, sessionVars, poolVars>>

\* A plausible slip: JSON.parse outside the loop's try, so that a text it
\* does not accept ends the replay with the error.
ReplayNextAbortsOnParseError ==
    /\ replay.pc = "loop"
    /\ replay' =
         IF replay.recordset = <<>>
         THEN [replay EXCEPT !.pc = "done", !.result = replay.streamId]
         ELSE IF ~IsJsonText(Head(replay.recordset).MessageJson)
         THEN [replay EXCEPT !.pc = "done", !.threw = TRUE]
         ELSE [replay EXCEPT !.pc = "send",
                 !.sent = Append(replay.sent,
                     <<Head(replay.recordset).EventId,
                       Parse(Head(replay.recordset).MessageJson)>>)]
    /\ UNCHANGED <<clock, log, inserts, returned, raised, sessionVars, poolVars>>

\* The head of the loop: the recordset is exhausted and the stream id is
\* returned, or the next row is parsed and handed to send; when JSON.parse
\* throws, the loop's catch logs it and the loop goes on with the next row.
ReplayNext ==
    /\ replay.pc = "loop"
    /\ replay' =
         IF replay.recordset = <<>>
         THEN [replay EXCEPT !.pc = "done", !.result = replay.streamId]
         ELSE IF ~IsJsonText(Head(replay.recordset).MessageJson)
         THEN [replay EXCEPT !.recordset = Tail(replay.recordset)]
         ELSE [replay EXCEPT !.pc = "send",
                 !.sent = Append(replay.sent,
                     <<Head(replay.recordset).EventId,
                       Parse(Head(replay.recordset).MessageJson)>>)]
    /\ UNCHANGED <<clock, log, inserts, returned, raised, sessionVars, poolVars>>

\* A plausible slip: await send outside the loop's try, so that a rejection
\* ends the replay with the error.
ReplaySettlePropagates(fulfilled) ==
    /\ replay.pc = "send"
    /\ fulfilled \in BOOLEAN
    /\ replay' =
         IF fulfilled
         THEN [replay EXCEPT !.pc = "loop", !.recordset = Tail(replay.recordset)]
         ELSE [replay EXCEPT !.pc = "done", !.rejected = TRUE, !.threw = TRUE]
    /\ UNCHANGED <<clock, log, inserts, returned, raised, sessionVars, poolVars>>

\* await send(...) settles: fulfilled counts the event (replayedCount, which
\* is only logged), a rejection is caught by the loop's catch; either way
\* the loop goes on with the next row.
ReplaySettle(fulfilled) ==
    /\ replay.pc = "send"
    /\ fulfilled \in BOOLEAN
    /\ replay' = [replay EXCEPT !.pc = "loop",
                    !.recordset = Tail(replay.recordset),
                    !.rejected = @ \/ ~fulfilled]
    /\ UNCHANGED <<clock, log, inserts, returned, raised, sessionVars, poolVars>>

\* The caller has the outcome; another replay may start.
ReplayReturn ==
    /\ replay.pc = "done"
    /\ replay' = IdleReplay
    /\ UNCHANGED <<clock, log, inserts, returned, raised, sessionVars, poolVars>>

\* Event ids a client may present that storeEvent never returned: the
\* empty id, one with an empty first component, one without a delimiter and
\* a well-formed one of a time the clock never shows.
ForeignEventIds ==
    { <<>>, <<"_", "0", "_", "x">>, <<"g">>, <<"a", "_", "9", "_", "x">> }

\* ------------------------------------------------------------------ session registry
\* The mcp-session-id header is absent (or empty: both are falsy).
NoHeader == ""

UuidNames == <<"u1", "u2", "u3", "u4", "u5">>

\* randomUUID(): the values it may return.
Uuids == { UuidNames[i] : i \in 1..MaxSessions }

\* Names every object inherits from Object.prototype; transports is created
\* by an object literal, so transports[name] finds them.
ObjectPrototypeKeys == { "constructor" }

\* What a client may send as mcp-session-id.
Headers == {NoHeader} \cup Uuids \cup ObjectPrototypeKeys

Undefined == 0
Inherited == -1

\* transports[sessionId]: the transport stored under the id, a member
\* inherited from Object.prototype, or undefined.
Lookup(reg, sessionId) ==
    IF sessionId \in DOMAIN reg THEN reg[sessionId]
    ELSE IF sessionId \in ObjectPrototypeKeys THEN Inherited
    ELSE Undefined

\* A plausible slip: every initialization request opens a session, whether
\* or not it names one (the !sessionId test left out).
PostRouteInitFirst(reg, sessionId, isInit) ==
    IF sessionId # NoHeader /\ Lookup(reg, sessionId) # Undefined THEN "reuse"
    ELSE IF isInit THEN "new"
    ELSE "bad"

\* The three branches of app.post('/mcp').
PostRoute(reg, sessionId, isInit) ==
    IF sessionId # NoHeader /\ Lookup(reg, sessionId) # Undefined THEN "reuse"
    ELSE IF sessionId = NoHeader /\ isInit THEN "new"
    ELSE "bad"

\* A plausible slip: transport is one variable shared by all handlers, so
\* the callback stores the transport constructed last.
onsessioninitializedShared(reg, initializedSessionId, transport) ==
    [sid \in DOMAIN reg \cup {initializedSessionId} |->
        IF sid = initializedSessionId THEN Len(tr) ELSE reg[sid]]

\* onsessioninitialized: transports[initializedSessionId] = transport, the
\* transport of the handler that made the callback.
onsessioninitialized(reg, initializedSessionId, transport) ==
    [sid \in DOMAIN reg \cup {initializedSessionId} |->
        IF sid = initializedSessionId THEN transport ELSE reg[sid]]

\* A plausible slip: the close handler empties the registry.
oncloseClearAll(reg, sessionId) ==
    IF sessionId # "" THEN [sid \in {} |-> 0] ELSE reg

\* A plausible slip: the close handler forgets to delete the entry.
oncloseKeep(reg, sessionId) == reg

\* transport.onclose: if (transport.sessionId) delete transports[...];
\* deleting an absent property does nothing.
onclose(reg, sessionId) ==
    IF sessionId # "" THEN [sid \in DOMAIN reg \ {sessionId} |-> reg[sid]] ELSE reg

InitSession ==
    /\ transports = [sid \in {} |-> 0]
    /\ tr = <<>>
    /\ reqs = <<>>

Request(method, header, isInit, pc, transport, status, created) ==
    [method |-> method, header |-> header, isInit |-> isInit, pc |-> pc,
     transport |-> transport, status |-> status, created |-> created,
     \* history: the id named an entry of the registry when the request came
     known |-> header \in DOMAIN transports]

\* Session ids randomUUID() has returned; it does not return one twice.
Generated == { tr[t].newSessionId : t \in 1..Len(tr) }

\* app.post('/mcp') up to its first await: an existing transport is taken
\* from the registry, or a transport is constructed for a fresh session id
\* and mcpServer.connect awaited, or the request is answered 400.
PostArrive(header, isInit) ==
    LET route == PostRoute(transports, header, isInit)
    IN  \/ /\ route = "reuse"
           /\ reqs' = Append(reqs, Request("POST", header, isInit, "handle",
                                           Lookup(transports, header), 0, FALSE))
           /\ UNCHANGED <<transports, tr, storeVars, poolVars>>
        \/ /\ route = "new"
           /\ \E newSessionId \in Uuids \ Generated :
                 /\ tr' = Append(tr, [newSessionId |-> newSessionId,
                                      sessionId |-> "", closes |-> 0])
                 /\ reqs' = Append(reqs, Request("POST", header, isInit, "connect",
                                                 Len(tr) + 1, 0, TRUE))
           /\ UNCHANGED <<transports, storeVars, poolVars>>
        \/ /\ route = "bad"
           /\ reqs' = Append(reqs, Request("POST", header, isInit, "done",
                                           Undefined, 400, FALSE))
           /\ UNCHANGED <<transports, tr, storeVars, poolVars>>

\* await mcpServer.connect(transport) resolves; transport.handleRequest is called.
PostConnected(r) ==
    /\ reqs[r].pc = "connect"
    /\ reqs' = [reqs EXCEPT ![r].pc = "handle"]
    /\ UNCHANGED <<transports, tr, storeVars, poolVars>>

\* handleSessionRequest (GET and DELETE) up to its await: 400 unless
\* transports[sessionId] is truthy.
SessionArrive(method, header) ==
    /\ reqs' = Append(reqs,
          IF header = NoHeader \/ Lookup(transports, header) = Undefined
          THEN Request(method, header, FALSE, "done", Undefined, 400, FALSE)
          ELSE Request(method, header, FALSE, "handle",
                       Lookup(transports, header), 0, FALSE))
    /\ UNCHANGED <<transports, tr, storeVars, poolVars>>

\* transport.handleRequest on what the lookup found is not a function when
\* the lookup found an inherited member: the TypeError is caught, 500.
HandleInherited(r) ==
    /\ reqs[r].pc = "handle"
    /\ reqs[r].transport = Inherited
    /\ reqs' = [reqs EXCEPT ![r].pc = "done", ![r].status = 500]
    /\ UNCHANGED <<transports, tr, storeVars, poolVars>>

\* The new transport handles the initialization request: it takes its
\* session id from sessionIdGenerator and calls onsessioninitialized.
HandleInitialize(r) ==
    /\ reqs[r].pc = "handle"
    /\ reqs[r].created
    /\ LET t == reqs[r].transport
       IN  /\ tr' = [tr EXCEPT ![t].sessionId = tr[t].newSessionId]
           /\ transports' = onsessioninitialized(transports, tr[t].newSessionId, t)
    /\ reqs' = [reqs EXCEPT ![r].pc = "respond"]
    /\ UNCHANGED <<storeVars, poolVars>>

\* The new transport refuses the request before initializing (a header it
\* does not accept) or handleRequest throws: no callback, an error response.
HandleInitializeFails(r, status) ==
    /\ reqs[r].pc = "handle"
    /\ reqs[r].created
    /\ reqs' = [reqs EXCEPT ![r].pc = "done", ![r].status = status]
    /\ UNCHANGED <<transports, tr, storeVars, poolVars>>

\* An existing transport handles a POST or a GET.
HandleMessage(r) ==
    /\ reqs[r].pc = "handle"
    /\ ~reqs[r].created
    /\ reqs[r].transport \in 1..Len(tr)
    /\ reqs[r].method \in {"POST", "GET"}
    /\ reqs' = [reqs EXCEPT ![r].pc = "respond"]
    /\ UNCHANGED <<transports, tr, storeVars, poolVars>>

\* An existing transport handles a DELETE: it closes and fires onclose.
HandleDelete(r) ==
    /\ reqs[r].pc = "handle"
    /\ reqs[r].transport \in 1..Len(tr)
    /\ reqs[r].method = "DELETE"
    /\ LET t == reqs[r].transport
       IN  /\ tr[t].closes < MaxCloses
           /\ tr' = [tr EXCEPT ![t].closes = @ + 1]
           /\ transports' = onclose(transports, tr[t].sessionId)
    /\ reqs' = [reqs EXCEPT ![r].pc = "respond"]
    /\ UNCHANGED <<storeVars, poolVars>>

\* transport.handleRequest resolves with the response written.
Respond(r) ==
    /\ reqs[r].pc = "respond"
    /\ reqs' = [reqs EXCEPT ![r].pc = "done", ![r].status = 200]
    /\ UNCHANGED <<transports, tr, storeVars, poolVars>>

\* ------------------------------------------------------------------ connection pool
Null == 0

InitPool ==
    /\ pool = Null
    /\ pools = <<>>
    /\ closing = {}
    /\ handed = {}
    /\ exited = FALSE

\* getDbPool() finds a pool cached and returns it at once, whatever state
\* that pool is in.
GetDbPoolCached ==
    /\ ~exited
    /\ pool # Null
    /\ handed' = handed \cup { [p |-> pool, state |-> pools[pool].state] }
    /\ UNCHANGED <<pool, pools, closing, exited, storeVars, sessionVars>>

\* getDbPool() finds no pool cached: it constructs one, caches it and
\* awaits its connect().
GetDbPoolCreate ==
    /\ ~exited
    /\ pool = Null
    /\ Len(pools) < MaxPools
    /\ pools' = Append(pools, [state |-> "connecting", pending |-> TRUE,
                               listener |-> FALSE, faulted |-> FALSE])
    /\ pool' = Len(pools) + 1
    /\ UNCHANGED <<closing, handed, exited, storeVars, sessionVars>>

\* connect() of pool p resolves and the call that constructed p goes on
\* with the variable pool as it is now: null makes pool.on(...) throw, which
\* the catch turns into pool = null and a rethrow; else the error listener
\* is added to the cached pool and that pool is returned.
ConnectResolves(p) ==
    /\ ~exited
    /\ pools[p].pending
    /\ LET connected == [pools EXCEPT ![p].pending = FALSE,
                            ![p].state = IF @ = "connecting" THEN "connected" ELSE @]
       IN  IF pool = Null
           THEN /\ pools' = connected
                /\ UNCHANGED <<pool, handed>>
           ELSE /\ pools' = [connected EXCEPT ![pool].listener = TRUE]
                /\ handed' = handed \cup { [p |-> pool, state |-> connected[pool].state] }
                /\ UNCHANGED pool
    /\ UNCHANGED <<closing, exited, storeVars, sessionVars>>

\* connect() of pool p rejects: the catch sets pool = null and rethrows.
ConnectRejects(p) ==
    /\ ~exited
    /\ pools[p].pending
    /\ pools' = [pools EXCEPT ![p].pending = FALSE,
                    ![p].state = IF @ = "connecting" THEN "failed" ELSE @]
    /\ pool' = Null
    /\ UNCHANGED <<closing, handed, exited, storeVars, sessionVars>>

\* A plausible slip: the error listener only logs the error.
PoolErrorLogOnly(p) ==
    /\ ~exited
    /\ pools[p].listener
    /\ pools[p].state = "connected"
    /\ pools' = [pools EXCEPT ![p].faulted = TRUE]
    /\ UNCHANGED <<pool, closing, handed, exited, storeVars, sessionVars>>

\* A pool with the error listener emits 'error' (it may do so again and
\* again: nothing closes it): pool = null.
PoolError(p) ==
    /\ ~exited
    /\ pools[p].listener
    /\ pools[p].state = "connected"
    /\ pools' = [pools EXCEPT ![p].faulted = TRUE]
    /\ pool' = Null
    /\ UNCHANGED <<closing, handed, exited, storeVars, sessionVars>>

\* SIGINT or SIGTERM: closeDbPool() up to its await.  With no pool cached
\* it returns and the process exits.
Signal ==
    /\ ~exited
    /\ IF pool = Null
       THEN /\ exited' = TRUE
            /\ UNCHANGED <<pools, closing>>
       ELSE /\ pools' = [pools EXCEPT ![pool].state = "closed"]
            /\ closing' = closing \cup {pool}
            /\ UNCHANGED exited
    /\ UNCHANGED <<pool, handed, storeVars, sessionVars>>

\* await pool.close() resolves: pool = null, closeDbPool returns and the
\* signal handler calls process.exit(0).
CloseResolved(p) ==
    /\ ~exited
    /\ p \in closing
    /\ pool' = Null
    /\ closing' = closing \ {p}
    /\ exited' = TRUE
    /\ UNCHANGED <<pools, handed, storeVars, sessionVars>>

\* ------------------------------------------------------------------ specifications
Init == InitStore /\ InitSession /\ InitPool

\* storeEvent calls made so far: fulfilled, in flight and raised.
Calls == Len(log) + Len(inserts) + raised

\* One step of the event log when the database serves every INSERT and the
\* send callback fulfils: storeEvent calls made one after the other (each
\* awaited before the next is made) and one replay at a time, called when
\* no storeEvent is in flight and running beside the later ones.
LogStep(streams, messages, foreign, maxCalls, maxClock) ==
    \/ Tick(maxClock)
    \/ /\ Calls < maxCalls
       /\ inserts = <<>>
       /\ \E s \in streams, m \in messages, r \in RandomSuffixes :
             StoreEventBegin(s, m, r, maxClock)
    \/ \E i \in 1..Len(inserts) : StoreEventInsert(i)
    \/ /\ inserts = <<>>
       /\ \E id \in EventIds(log) \cup foreign : ReplayBegin(id)
    \/ ReplayQuery
    \/ ReplayQueryThrow
    \/ ReplayNext
    \/ ReplaySettle(TRUE)
    \/ ReplayReturn

\* Several streams, one message.
NextLog == LogStep(StreamIds, LogMessages, ForeignEventIds, MaxLog, MaxClock)

SpecLog == Init /\ [][NextLog]_vars

\* One stream, every kind of message, replays of the ids stored.
NextPayload == LogStep({<<"a">>}, AllMessages, {}, MaxPayloadLog, MaxClock)

SpecPayload == Init /\ [][NextPayload]_vars

\* The replay loop over a longer span of time: one stream, one message and
\* one random suffix, storeEvent calls made one after the other; a row may
\* be corrupted by another client of the database and the send callback may
\* reject.
NextReplay ==
    \/ Tick(MaxReplayClock)
    \/ /\ Calls < MaxReplayLog
       /\ inserts = <<>>
       /\ \E m \in LogMessages : StoreEventBegin(<<"a">>, m, <<"x">>, MaxReplayClock)
    \/ \E i \in 1..Len(inserts) : StoreEventInsert(i)
    \/ \E k \in 1..Len(log) : CorruptRow(k)
    \/ /\ inserts = <<>>
       /\ \E id \in EventIds(log) : ReplayBegin(id)
    \/ ReplayQuery
    \/ ReplayQueryThrow
    \/ ReplayNext
    \/ \E fulfilled \in BOOLEAN : ReplaySettle(fulfilled)
    \/ ReplayReturn

SpecReplay == Init /\ [][NextReplay]_vars

\* Streams of the specification of overlapping writes.
WriteStreams == { <<"a">>, <<"b">> }

\* storeEvent calls that overlap, each fulfilled or raised in any order.
NextWrites ==
    \/ Tick(MaxClock)
    \/ /\ Calls < MaxWrites
       /\ \E s \in WriteStreams, m \in LogMessages, r \in RandomSuffixes :
             StoreEventBegin(s, m, r, MaxClock)
    \/ \E i \in 1..Len(inserts) : StoreEventInsert(i)
    \/ \E i \in 1..Len(inserts) : StoreEventThrow(i)

SpecWrites == Init /\ [][NextWrites]_vars

\* The HTTP handlers, interleaved at their awaits.
NextSession ==
    \/ /\ Len(reqs) < MaxRequests
       /\ \E h \in Headers, isInit \in BOOLEAN : PostArrive(h, isInit)
    \/ /\ Len(reqs) < MaxRequests
       /\ \E m \in {"GET", "DELETE"}, h \in Headers : SessionArrive(m, h)
    \/ \E r \in 1..Len(reqs) : PostConnected(r)
    \/ \E r \in 1..Len(reqs) : HandleInherited(r)
    \/ \E r \in 1..Len(reqs) : HandleInitialize(r)
    \/ \E r \in 1..Len(reqs), status \in {406, 500} : HandleInitializeFails(r, status)
    \/ \E r \in 1..Len(reqs) : HandleMessage(r)
    \/ \E r \in 1..Len(reqs) : HandleDelete(r)
    \/ \E r \in 1..Len(reqs) : Respond(r)

SpecSession == Init /\ [][NextSession]_vars

\* getDbPool calls, pool faults and shutdown signals in any order.
NextPool ==
    \/ GetDbPoolCached
    \/ GetDbPoolCreate
    \/ \E p \in 1..Len(pools) : ConnectResolves(p)
    \/ \E p \in 1..Len(pools) : ConnectRejects(p)
    \/ \E p \in 1..Len(pools) : PoolError(p)
    \/ Signal
    \/ \E p \in closing : CloseResolved(p)

SpecPool == Init /\ [][NextPool]_vars

\* ------------------------------------------------------------------ claims: the event log
\* The table as the running replay's query saw it.
LogAtQuery == SubSeq(log, 1, replay.qlen)

SentIds == [k \in 1..Len(replay.sent) |-> replay.sent[k][1]]

RowIds(rows) == [k \in 1..Len(rows) |-> rows[k].EventId]

\* The rows of rows[k]'s stream that were appended after rows[k], in append order.
LaterOfStream(rows, k) ==
    SelectSeq(SubSeq(rows, k + 1, Len(rows)),
              LAMBDA r : r.StreamId = rows[k].StreamId)

ReplayAnswered == replay.pc = "done" /\ replay.queried

\* C1: after storeEvent calls that completed one after the other, a replay
\* called after them with the id of the k-th stored event passes to send
\* exactly the events of that event's stream appended after it, each once
\* and in append order, also when events share a StoredAt value.
C1_ReplayDeliversEveryLaterEvent ==
    ReplayAnswered =>
        \A k \in 1..replay.qlen :
            log[k].EventId = replay.lastEventId =>
                SentIds = RowIds(LaterOfStream(LogAtQuery, k))

\* C2: replay never passes to send an event of another stream than the
\* stream of lastEventId: every event sent is a row of the extracted stream,
\* and so is the row of lastEventId.  When the rows of that stream carry
\* strictly increasing StoredAt values, what is sent is exactly the later
\* events of the stream, in order, whatever other streams hold.
C2_StreamIsolation ==
    /\ \A k \in 1..Len(replay.sent) :
          \E i, r \in 1..replay.qlen :
              /\ log[i].EventId = replay.sent[k][1]
              /\ log[i].StreamId = replay.streamId
              /\ log[r].EventId = replay.lastEventId
              /\ log[r].StreamId = log[i].StreamId
    /\ ReplayAnswered =>
          \A k \in ReferenceRows(LogAtQuery, replay.streamId, replay.lastEventId) :
              (\A i, j \in k..replay.qlen :
                    (i < j /\ log[i].StreamId = log[k].StreamId
                           /\ log[j].StreamId = log[k].StreamId)
                        => log[i].StoredAt < log[j].StoredAt)
                  => SentIds = RowIds(LaterOfStream(LogAtQuery, k))

\* A replay has sent an event of its stream and skipped an event of another
\* stream that was stored between the cursor and the event sent.
C2_Witness ==
    /\ ReplayAnswered
    /\ \E k, x, j \in 1..replay.qlen :
          /\ k < x /\ x < j
          /\ log[k].EventId = replay.lastEventId
          /\ log[x].StreamId # log[k].StreamId
          /\ log[x].StoredAt > log[k].StoredAt
          /\ log[j].StreamId = log[k].StreamId
          /\ SentIds = <<log[j].EventId>>

\* An event id that is empty or has nothing before its first '_'.
Unparseable(id) == id = <<>> \/ id[1] = "_"

\* C3: a replay of an empty or unparseable event id returns '' at once: no
\* send, no query, no error.
C3_UnparseableIsNoOp ==
    (replay.pc # "idle" /\ Unparseable(replay.lastEventId)) =>
        /\ replay.pc = "done"
        /\ replay.result = <<>>
        /\ replay.sent = <<>>
        /\ ~replay.queried
        /\ ~replay.threw

C3_Witness ==
    /\ replay.pc = "done"
    /\ replay.lastEventId # <<>>
    /\ Unparseable(replay.lastEventId)
    /\ log # <<>>

\* The cursor is not a row of the stream it names.
UnknownCursor ==
    /\ ~Unparseable(replay.lastEventId)
    /\ \A i \in 1..replay.qlen :
          ~(log[i].EventId = replay.lastEventId /\ log[i].StreamId = replay.streamId)

\* C4: a replay of a well-formed event id that is not in the log, or is
\* stored under another stream than the one it names, sends nothing and
\* returns without an error, whatever the stream holds.
C4_UnknownCursorIsEmpty ==
    (replay.queried /\ UnknownCursor) =>
        /\ replay.sent = <<>>
        /\ ~replay.threw
        /\ replay.pc \in {"loop", "done"}
        /\ replay.pc = "done" => replay.result = replay.streamId

\* An answered replay of an id stored under another stream than the one its
\* text names, while the named stream holds events.
C4_Witness ==
    /\ ReplayAnswered
    /\ UnknownCursor
    /\ replay.lastEventId \in EventIds(LogAtQuery)
    /\ \E i \in 1..replay.qlen : log[i].StreamId = replay.streamId

\* A value JSON can represent: no NaN and no member that is undefined.
JsonRepresentable(v) ==
    \A i \in 1..Len(v) : v[i] \notin {"nan", "undef"}

\* C5 as stated: every event sent carries a message equal to the message
\* storeEvent was given for it, for any message.
C5_AnyPayloadRoundTrips ==
    \A k \in 1..Len(replay.sent) :
        \A e \in returned :
            e[1] = replay.sent[k][1] => replay.sent[k][2] = e[2]

\* C5, amended: every event sent carries a message equal to the message
\* storeEvent was given for it, for any message JSON can represent.
C5_JsonPayloadRoundTrips ==
    \A k \in 1..Len(replay.sent) :
        \A e \in returned :
            (e[1] = replay.sent[k][1] /\ JsonRepresentable(e[2]))
                => replay.sent[k][2] = e[2]

\* A replay has sent an event that was stored with a message that has a member.
C5_Witness ==
    \E k \in 1..Len(replay.sent) :
        \E e \in returned :
            /\ e[1] = replay.sent[k][1]
            /\ e[2] = JsObj("r", JsNum("1"))
            /\ replay.sent[k][2] = e[2]

\* ------------------------------------------------------------------ claims: the session registry
Transports == 1..Len(tr)

Requests == 1..Len(reqs)

\* The transport has been initialized and has not closed.
Live(t) == tr[t].sessionId # "" /\ tr[t].closes = 0

\* C6: two initialization requests handled at the same time get two
\* different session ids, and once both transports are initialized each id
\* is registered to the transport of its own request.
C6_ConcurrentCreatesAreDistinct ==
    \A t1, t2 \in Transports :
        t1 # t2 =>
            /\ tr[t1].newSessionId # tr[t2].newSessionId
            /\ (Live(t1) /\ Live(t2)) =>
                  /\ Lookup(transports, tr[t1].sessionId) = t1
                  /\ Lookup(transports, tr[t2].sessionId) = t2

\* Two handlers of initialization requests are in flight together, both
\* past the session-initialized callback, each id resolving to its own transport.
C6_Witness ==
    \E r1, r2 \in Requests :
        /\ r1 < r2
        /\ reqs[r1].created /\ reqs[r2].created
        /\ reqs[r1].pc = "respond" /\ reqs[r2].pc = "respond"
        /\ Lookup(transports, tr[reqs[r1].transport].sessionId) = reqs[r1].transport
        /\ Lookup(transports, tr[reqs[r2].transport].sessionId) = reqs[r2].transport

\* After a close notification the session id resolves to nothing.
ClosedIsAbsent ==
    \A t \in Transports :
        (tr[t].closes >= 1 /\ tr[t].sessionId # "") =>
            Lookup(transports, tr[t].sessionId) = Undefined

\* A close notification leaves every other session's entry as it is, and a
\* second one for the same transport leaves the whole registry as it is.
CloseTouchesOwnEntryOnly ==
    \A t \in Transports :
        (t \in 1..Len(tr') /\ tr'[t].closes > tr[t].closes) =>
            /\ \A sid \in DOMAIN transports :
                  sid # tr[t].sessionId =>
                      (sid \in DOMAIN transports' /\ transports'[sid] = transports[sid])
            /\ tr[t].closes >= 1 => transports' = transports

\* C7: after a session's close notification a lookup of its id finds
\* nothing, and a second close notification of the same transport changes
\* nothing: no other session's entry is removed.
C7_CloseRemovesOnceOnly == []ClosedIsAbsent /\ [][CloseTouchesOwnEntryOnly]_vars

\* An initialized transport has made two close notifications and its
\* session id resolves to nothing.
C7_Witness ==
    \E t \in Transports :
        /\ tr[t].closes = 2
        /\ tr[t].sessionId # ""
        /\ Lookup(transports, tr[t].sessionId) = Undefined

\* A request that names a session id with no entry in the registry never
\* constructs a transport and never reaches a transport's handler: it is
\* answered 400, or 500 when the id is the name of an inherited member.
UnknownIsRejected ==
    \A r \in Requests :
        (reqs[r].header # NoHeader /\ ~reqs[r].known) =>
            /\ ~reqs[r].created
            /\ reqs[r].pc \in {"handle", "done"}
            /\ reqs[r].pc = "handle" => reqs[r].transport = Inherited
            /\ reqs[r].pc = "done" => reqs[r].status \in {400, 500}

\* Uninitialized -> Active -> Closed of a session id.
LifeState(reg, trs, sid) ==
    IF sid \in DOMAIN reg THEN "Active"
    ELSE IF \E t \in 1..Len(trs) : trs[t].sessionId = sid /\ trs[t].closes >= 1
         THEN "Closed"
         ELSE "Uninitialized"

LifeCycleStep ==
    \A sid \in Uuids :
        LET before == LifeState(transports, tr, sid)
            after  == LifeState(transports', tr', sid)
        IN  \/ after = before
            \/ before = "Uninitialized" /\ after = "Active"
            \/ before = "Active" /\ after = "Closed"

\* C8: a POST, GET or DELETE that names an unknown or closed session id is
\* answered with an error and creates no session or transport, also when its
\* body is an initialization request; a session id goes Uninitialized ->
\* Active -> Closed and stays Closed.
C8_UnknownOrClosedIsRejected == []UnknownIsRejected /\ [][LifeCycleStep]_vars

\* An initialization request naming a closed session id has been answered 400.
C8_Witness ==
    \E r \in Requests :
        /\ reqs[r].method = "POST"
        /\ reqs[r].isInit
        /\ reqs[r].pc = "done"
        /\ reqs[r].status = 400
        /\ LifeState(transports, tr, reqs[r].header) = "Closed"

\* C9: the registry holds an entry only for a transport that has made the
\* session-initialized callback and has not made a close notification, under
\* that transport's session id; a transport that is not initialized has no entry.
C9_OnlyLiveTransportsRegistered ==
    /\ \A sid \in DOMAIN transports :
          /\ transports[sid] \in Transports
          /\ tr[transports[sid]].sessionId = sid
          /\ tr[transports[sid]].closes = 0
    /\ \A t \in Transports :
          tr[t].sessionId = "" =>
              /\ tr[t].newSessionId \notin DOMAIN transports
              /\ \A sid \in DOMAIN transports : transports[sid] # t

\* One initialization has failed, leaving no entry; one session was closed,
\* leaving no entry; one session is registered.
C9_Witness ==
    /\ \E r \in Requests :
          /\ reqs[r].created
          /\ reqs[r].pc = "done"
          /\ reqs[r].status = 406
          /\ tr[reqs[r].transport].newSessionId \notin DOMAIN transports
    /\ \E t \in Transports : Live(t) /\ Lookup(transports, tr[t].sessionId) = t

\* ------------------------------------------------------------------ claims: the connection pool
Pending == { p \in 1..Len(pools) : pools[p].pending }

\* C10: getDbPool calls that overlap construct one ConnectionPool between
\* them: no two calls are awaiting connect() of two different pools.
C10_SingleFlight == Cardinality(Pending) <= 1

\* The cached pool has not emitted 'error'.
CacheNotFaulted == pool # Null => ~pools[pool].faulted

\* The first 'error' event of the cached pool leaves the cache null.
ErrorClearsCache ==
    (pool # Null /\ ~pools[pool].faulted /\ pools'[pool].faulted) => pool' = Null

\* The cache only ever takes a pool constructed by the step that fills it,
\* whose connect() that step starts.
CacheFilledByNewPool ==
    (pool' # pool /\ pool' # Null) =>
        /\ pool = Null
        /\ pool' = Len(pools) + 1
        /\ pools'[pool'].state = "connecting"
        /\ pools'[pool'].pending

\* What getDbPool hands out in a step has not emitted 'error'.
HandsNoFaultedPool == \A h \in handed' \ handed : ~pools[h.p].faulted

\* C11: an 'error' event of the cached pool clears the cache; the pool that
\* emitted it is never cached or returned again, and the next getDbPool call
\* constructs a new pool and starts its connect().
C11_ErrorInvalidatesCache ==
    []CacheNotFaulted
        /\ [][ErrorClearsCache /\ CacheFilledByNewPool /\ HandsNoFaultedPool]_vars

\* A pool has emitted 'error'; a pool constructed after it is cached,
\* connected and has been returned by getDbPool.
C11_Witness ==
    /\ pool # Null
    /\ \E p \in 1..Len(pools) : pools[p].faulted /\ p < pool
    /\ [p |-> pool, state |-> "connected"] \in handed

\* Pools that are connected and on which close() was never called.
OpenPools == { p \in 1..Len(pools) : pools[p].state = "connected" }

\* C12: closeDbPool closes each open pool: when the signal handler has run
\* closeDbPool to its end and the process exits, no pool is left connected
\* and unclosed.
C12_ShutdownClosesEveryOpenPool == exited => OpenPools = {}

\* ------------------------------------------------------------------ claims: the replay loop
\* The rows of the recordset the loop has taken up so far: those it is
\* done with and the one whose send it awaits.
TakenUp ==
    SubSeq(replay.rs, 1,
           Len(replay.rs) - Len(replay.recordset) + (IF replay.pc = "send" THEN 1 ELSE 0))

\* The rows whose text JSON.parse accepts, in their order.
Parseable(rows) == SelectSeq(rows, LAMBDA r : IsJsonText(r.MessageJson))

\* The recordset has each event once, in ascending StoredAt order, and send
\* has been called once for each parseable row taken up, in that order.
SendsFollowRecordset ==
    /\ \A i, j \in 1..Len(replay.rs) :
          i < j => /\ replay.rs[i].StoredAt <= replay.rs[j].StoredAt
                   /\ replay.rs[i].EventId # replay.rs[j].EventId
    /\ SentIds = RowIds(Parseable(TakenUp))

\* send is only called from the head of the loop, where no send is
\* awaited, one call in a step, and the loop then awaits that call.
OneSendAtATime ==
    Len(replay'.sent) > Len(replay.sent) =>
        /\ replay.pc = "loop"
        /\ replay'.pc = "send"
        /\ Len(replay'.sent) = Len(replay.sent) + 1

\* C13: during one replay send is called at most once for each selected
\* event, in ascending StoredAt order, and a send is only started when the
\* send before it has settled.
C13_SendsInOrderOneAtATime == []SendsFollowRecordset /\ [][OneSendAtATime]_vars

\* A replay has sent two events with different StoredAt values, the
\* earlier one first, and has returned.
C13_Witness ==
    /\ ReplayAnswered
    /\ Len(replay.sent) = 2
    /\ Len(replay.rs) = 2
    /\ replay.rs[1].StoredAt < replay.rs[2].StoredAt
    /\ SentIds = RowIds(replay.rs)

\* C14: send is never called for a selected row whose text JSON.parse does
\* not accept, and a replay whose query was answered returns the stream id
\* without raising, having sent every other selected row, in order.
C14_CorruptRowIsSkipped ==
    /\ \A k \in 1..Len(replay.sent) :
          \A i \in 1..Len(replay.rs) :
              replay.rs[i].EventId = replay.sent[k][1]
                  => IsJsonText(replay.rs[i].MessageJson)
    /\ ReplayAnswered =>
          /\ ~replay.threw
          /\ replay.result = replay.streamId
          /\ SentIds = RowIds(Parseable(replay.rs))

\* A replay has skipped the first selected row, whose text is not JSON,
\* has sent the later second one and has returned.
C14_Witness ==
    /\ ReplayAnswered
    /\ Len(replay.rs) = 2
    /\ ~IsJsonText(replay.rs[1].MessageJson)
    /\ replay.rs[1].StoredAt < replay.rs[2].StoredAt
    /\ SentIds = <<replay.rs[2].EventId>>
    /\ replay.result = replay.streamId

\* ------------------------------------------------------------------ claims: writes
\* A step keeps every row of the log as it is, in its place.
RowsAreKept ==
    /\ Len(log') >= Len(log)
    /\ \A k \in 1..Len(log) : log'[k] = log[k]

\* A step that ends a storeEvent call either appends the one row of that
\* call and returns its event id, or raises and leaves the log as it is.
WritesOneRowOrRaises ==
    Len(inserts') < Len(inserts) =>
        \E i \in 1..Len(inserts) :
            /\ inserts' = RemoveAt(inserts, i)
            /\ \/ /\ log' = Append(log, inserts[i].row)
                  /\ returned' = returned \cup
                        { <<inserts[i].row.EventId, inserts[i].message>> }
                  /\ raised' = raised
               \/ /\ log' = log
                  /\ returned' = returned
                  /\ raised' = raised + 1

\* The rows of the log are those of the fulfilled calls: one row for each
\* event id returned, holding the JSON text of that call's message.
RowsAreTheReturnedEvents ==
    /\ Cardinality(returned) = Len(log)
    /\ \A e \in returned :
          \E k \in 1..Len(log) :
              /\ log[k].EventId = e[1]
              /\ log[k].MessageJson = Stringify(e[2])
              /\ \A j \in 1..Len(log) : log[j].EventId = e[1] => j = k

\* C15: storeEvent is all-or-nothing: a call either writes exactly one new
\* row, with its stream id and payload, and returns that row's event id, or
\* raises and leaves the log unchanged; no call changes or removes a row
\* that is in the log.
C15_StoreIsAllOrNothing ==
    []RowsAreTheReturnedEvents /\ [][RowsAreKept /\ WritesOneRowOrRaises]_vars

\* Two calls have written their rows and one call has raised; the log
\* holds the two rows.
C15_Witness ==
    /\ Len(log) = 2
    /\ raised = 1
    /\ inserts = <<>>
    /\ Cardinality(returned) = 2

\* C16: within one stream the StoredAt values of the rows are non-decreasing
\* in the order the rows became durable, also when the storeEvent calls
\* that wrote them overlapped.
C16_StoredAtFollowsWriteOrder ==
    \A i, j \in 1..Len(log) :
        (i < j /\ log[i].StreamId = log[j].StreamId)
            => log[i].StoredAt <= log[j].StoredAt

\* ------------------------------------------------------------------ claims: event ids
\* C17: a replay of the event id of a row works on the stream that row was
\* stored under: the stream id it extracts, queries and returns is the
\* StreamId of the row, whatever characters that stream id has.
C17_ExtractsTheStoredStreamId ==
    \A k \in 1..Len(log) :
        (replay.pc # "idle" /\ replay.lastEventId = log[k].EventId) =>
            /\ replay.streamId = log[k].StreamId
            /\ (replay.pc = "done" /\ ~replay.threw)
                  => replay.result = log[k].StreamId

\* ------------------------------------------------------------------ claims: pool handles
\* C18: every pool getDbPool has returned to a caller had completed
\* connect() when it was returned: it was not still connecting, had not
\* failed to connect and was not closed.
C18_HandedPoolsAreConnected == \A h \in handed : h.state = "connected"

\* C19: the cache is never cleared while it refers to a healthy pool, so no
\* healthy pool is orphaned: a pool that is connected, has emitted no
\* 'error' and was not closed is the pool the cache refers to.
C19_HealthyPoolIsTheCachedPool ==
    \A p \in 1..Len(pools) :
        (pools[p].state = "connected" /\ ~pools[p].faulted) => pool = p

\* ------------------------------------------------------------------ claims: rejected sends
\* C20: a rejection of the send callback is caught inside the loop and is
\* not propagated: a replay in which a send rejected goes on to call send
\* for every later parseable row of its recordset, in order, and returns the
\* stream id without raising, as a replay without a rejection does.
C20_RejectedSendIsSwallowed ==
    replay.rejected =>
        /\ ~replay.threw
        /\ SentIds = RowIds(Parseable(TakenUp))
        /\ replay.pc \in {"loop", "send", "done"}
        /\ replay.pc = "done" =>
              /\ replay.result = replay.streamId
              /\ SentIds = RowIds(Parseable(replay.rs))

\* The send of the first of two selected events was rejected and send has
\* been called for the second, later event, which the loop now awaits.
C20_Witness ==
    /\ replay.rejected
    /\ replay.pc = "send"
    /\ Len(replay.rs) = 2
    /\ replay.rs[1].StoredAt < replay.rs[2].StoredAt
    /\ SentIds = RowIds(replay.rs)

====
